---- MODULE Spec2Model ----
(***************************************************************************)
(* Poster composition engine of the word-puzzle social automation          *)
(* (src/image_generator.py): gradient fill, boxed text, puzzle icon, the   *)
(* portrait (Pinterest) and landscape (Facebook) templates and the font    *)
(* cache they share.                                                       *)
(***************************************************************************)
EXTENDS Integers, Sequences, FiniteSets, TLC

VARIABLES
    fin,         \* arguments of the function call under study
    fout,        \* what that call drew and returned, once it has
    FONT_CACHE,  \* the module-level font cache: cache key -> font handle
    fontFiles,   \* the font directory: style -> "missing", "good", "corrupt"
    net,         \* what a font download does: "ok", "fail", "partial"
    fontDir,     \* whether the font directory can be made: "ok", "blocked"
    arialOK,     \* whether the system font arial.ttf can be loaded
    callerInk,     \* where the ink of a caller's string sits around its anchor
    last,        \* the latest render: its request, what it produced and the
                 \* theme table it left
    first        \* history: an earlier render kept for comparison (when armed)

vars == <<fin, fout, FONT_CACHE, fontFiles, net, fontDir, arialOK, callerInk,
          last, first>>

(***************************************************************************)
(* Python float arithmetic.  create_gradient evaluates                     *)
(*     int(start[c] * (1 - ratio) + end[c] * ratio)                        *)
(* in IEEE-754 binary64: every operation is rounded to the nearest value   *)
(* with a 53-bit significand, ties to even.  A float is modelled exactly,  *)
(* as m * 2^e with m a natural number, which is wider than the model       *)
(* checker's integers and is kept as a sequence of limbs.  All values here *)
(* are in [0, 255], so neither overflow nor subnormals arise.              *)
(***************************************************************************)
MantBits == 53

\* Naturals wider than the checker's integers are little-endian sequences of
\* limbs of LimbBits bits each.
LimbBits == 10

RECURSIVE Pow2(_)
Pow2(k) == IF k = 0 THEN 1 ELSE 2 * Pow2(k - 1)

Base == Pow2(LimbBits)

RECURSIVE NatLimbs(_)
NatLimbs(n) == IF n = 0 THEN <<>> ELSE <<n % Base>> \o NatLimbs(n \div Base)

RECURSIVE LimbsNat(_)
LimbsNat(b) == IF b = <<>> THEN 0 ELSE Head(b) + Base * LimbsNat(Tail(b))

RECURSIVE Trim(_)
Trim(b) == IF b = <<>> THEN <<>>
           ELSE IF b[Len(b)] = 0 THEN Trim(SubSeq(b, 1, Len(b) - 1))
           ELSE b

Zeros(k) == [i \in 1..k |-> 0]

RECURSIVE SmallBitLen(_)
SmallBitLen(n) == IF n = 0 THEN 0 ELSE 1 + SmallBitLen(n \div 2)

\* number of significant bits of a trimmed limb sequence
BitLen(b) == IF b = <<>> THEN 0
             ELSE LimbBits * (Len(b) - 1) + SmallBitLen(b[Len(b)])

RECURSIVE AddLimbs(_, _, _)
AddLimbs(a, b, carry) ==
    IF a = <<>> /\ b = <<>> THEN (IF carry = 1 THEN <<1>> ELSE <<>>)
    ELSE LET x == IF a = <<>> THEN 0 ELSE Head(a)
             y == IF b = <<>> THEN 0 ELSE Head(b)
             t == x + y + carry
         IN  <<t % Base>> \o AddLimbs(IF a = <<>> THEN a ELSE Tail(a),
                                      IF b = <<>> THEN b ELSE Tail(b),
                                      t \div Base)

\* a - b for a >= b
RECURSIVE SubLimbs(_, _, _)
SubLimbs(a, b, borrow) ==
    IF a = <<>> THEN <<>>
    ELSE LET y == IF b = <<>> THEN 0 ELSE Head(b)
             t == Head(a) - y - borrow
         IN  <<t % Base>> \o SubLimbs(Tail(a),
                                      IF b = <<>> THEN b ELSE Tail(b),
                                      IF t < 0 THEN 1 ELSE 0)

\* a * s for a small integer s
RECURSIVE MulSmall(_, _, _)
MulSmall(a, s, carry) ==
    IF a = <<>> THEN NatLimbs(carry)
    ELSE LET t == Head(a) * s + carry
         IN  <<t % Base>> \o MulSmall(Tail(a), s, t \div Base)

\* quotient (limbs) and remainder (integer) of a by the small integer d
RECURSIVE DivRem(_, _)
DivRem(a, d) ==
    IF a = <<>> THEN [q |-> <<>>, r |-> 0]
    ELSE LET hi == DivRem(Tail(a), d)
             t  == hi.r * Base + Head(a)
         IN  [q |-> <<t \div d>> \o hi.q, r |-> t % d]

\* a * 2^k
ShiftLeft(a, k) ==
    IF a = <<>> THEN <<>>
    ELSE Zeros(k \div LimbBits) \o MulSmall(a, Pow2(k % LimbBits), 0)

\* floor(a / 2^k), and whether anything non-zero was shifted out
ShiftRight(a, k) ==
    LET n    == k \div LimbBits
        low  == SubSeq(a, 1, IF n < Len(a) THEN n ELSE Len(a))
        rest == IF n < Len(a) THEN SubSeq(a, n + 1, Len(a)) ELSE <<>>
        qr   == DivRem(rest, Pow2(k % LimbBits))
    IN  [q |-> Trim(qr.q),
         lost |-> qr.r # 0 \/ (\E i \in 1..Len(low) : low[i] # 0)]

\* round the natural number `limbs` (plus a positive fraction when `sticky`)
\* to MantBits significant bits, ties to even: the result is m * 2^sh
RoundNearestEven(limbs, sticky) ==
    LET b == Trim(limbs)
        L == BitLen(b)
    IN  IF L <= MantBits THEN [m |-> b, sh |-> 0]
        ELSE LET d     == L - MantBits
                 wide  == ShiftRight(b, d - 1)
                 half  == DivRem(wide.q, 2)
                 kept  == Trim(half.q)
                 st    == sticky \/ wide.lost
                 up    == half.r = 1 /\ (st \/ Head(kept) % 2 = 1)
             IN  [m  |-> IF up THEN AddLimbs(kept, <<1>>, 0) ELSE kept,
                  sh |-> d]

FZero == [m |-> <<>>, e |-> 0]

FFromInt(n) == [m |-> NatLimbs(n), e |-> 0]

\* Python's int / int: the correctly rounded quotient
FDivInt(a, d) ==
    IF a = 0 THEN FZero
    ELSE LET k  == 2 * MantBits
             qr == DivRem(ShiftLeft(NatLimbs(a), k), d)
             r  == RoundNearestEven(qr.q, qr.r # 0)
         IN  [m |-> r.m, e |-> r.sh - k]

FRound(limbs, e) ==
    LET r == RoundNearestEven(limbs, FALSE)
    IN  IF r.m = <<>> THEN FZero ELSE [m |-> r.m, e |-> e + r.sh]

FShifted(x, e) == ShiftLeft(x.m, x.e - e)

FAdd(x, y) ==
    LET e == IF x.e < y.e THEN x.e ELSE y.e
    IN  FRound(AddLimbs(FShifted(x, e), FShifted(y, e), 0), e)

\* x - y for x >= y
FSub(x, y) ==
    LET e == IF x.e < y.e THEN x.e ELSE y.e
    IN  FRound(SubLimbs(FShifted(x, e), FShifted(y, e), 0), e)

\* n * x for a small integer n (int * float: the integer converts exactly)
FMulInt(n, x) == FRound(MulSmall(x.m, n, 0), x.e)

\* int(x): truncation (x >= 0)
FTrunc(x) ==
    IF x.e >= 0 THEN LimbsNat(ShiftLeft(x.m, x.e))
    ELSE LimbsNat(ShiftRight(x.m, -x.e).q)

\* int(s * (1 - ratio) + e * ratio), lines 76-78
Lerp(s, e, ratio) ==
    FTrunc(FAdd(FMulInt(s, FSub(FFromInt(1), ratio)), FMulInt(e, ratio)))


(***************************************************************************)
(* create_gradient                                                         *)
(***************************************************************************)
Directions == {"vertical", "horizontal", "diagonal"}

\* line 69: the ratio set at the head of each row
RowRatio(direction, y, height) ==
    IF direction = "vertical" THEN FDivInt(y, height) ELSE FZero

\* lines 71-74: the ratio in force when pixel (x, y) is computed
PixelRatio(direction, x, y, width, height) ==
    IF direction = "horizontal" THEN FDivInt(x, width)
    ELSE IF direction = "diagonal" THEN FDivInt(x + y, width + height)
    ELSE RowRatio(direction, y, height)

\* lines 76-79: the color put at (x, y)
GradientPixel(width, height, start_color, end_color, direction, x, y) ==
    LET ratio == PixelRatio(direction, x, y, width, height)
    IN  [c \in 1..3 |-> Lerp(start_color[c], end_color[c], ratio)]

\* the image the two loops fill: pixel <<x, y>> -> color
create_gradient(width, height, start_color, end_color, direction) ==
    [p \in (0..(width - 1)) \X (0..(height - 1)) |->
        GradientPixel(width, height, start_color, end_color, direction,
                      p[1], p[2])]

(***************************************************************************)
(* Colors.  A hex color is the sequence of its characters.                 *)
(***************************************************************************)
HexDigits == <<"0", "1", "2", "3", "4", "5", "6", "7", "8", "9",
               "a", "b", "c", "d", "e", "f">>

HexValue(ch) == (CHOOSE i \in 1..Len(HexDigits) : HexDigits[i] = ch) - 1

Hex(a, b, c, d, e, f) == <<"#", a, b, c, d, e, f>>

\* hex_color.lstrip('#')
RECURSIVE LStripHash(_)
LStripHash(h) == IF h # <<>> /\ Head(h) = "#" THEN LStripHash(Tail(h)) ELSE h

\* hex_to_rgb were it to read the channels in the opposite order
hex_to_bgr(hex_color) ==
    LET h == LStripHash(hex_color)
    IN  [k \in 1..3 |-> 16 * HexValue(h[7 - 2 * k]) + HexValue(h[8 - 2 * k])]

hex_to_rgb(hex_color) ==
    LET h == LStripHash(hex_color)
    IN  [k \in 1..3 |-> 16 * HexValue(h[2 * k - 1]) + HexValue(h[2 * k])]

\* the format spec :02x of the semantle tile colors (values below 256)
Hex2(n) == <<HexDigits[(n \div 16) + 1], HexDigits[(n % 16) + 1]>>

\* Every color is a sequence: a hex color its characters, an RGB or RGBA
\* tuple its channels, a named color its name alone, None nothing.
White == <<"white">>
Black == <<"black">>
NoColor == <<>>

\* the alpha of a fill: only a 4-tuple carries one
Alpha(color) == IF Len(color) = 4 THEN color[4] ELSE 255

(***************************************************************************)
(* get_font and FONT_CACHE                                                 *)
(***************************************************************************)
Styles == {"bold", "semibold", "regular"}

DefaultFontSize == 10

CacheKey(style, size) == <<style, size>>

TrueType(face, size) == [kind |-> "truetype", face |-> face, size |-> size]
DefaultFont == [kind |-> "default", face |-> "default", size |-> DefaultFontSize]

\* lines 39-46: the fallback after a failed download
SystemFont(size) == IF arialOK THEN TrueType("arial", size) ELSE DefaultFont

\* lines 48-55: load the font file
LoadFont(files, style, size) ==
    IF files[style] = "good" THEN TrueType(style, size) ELSE DefaultFont

\* get_font were the fallback font of a failed download not cached
get_font_uncached(w, style, size) ==
    LET key == CacheKey(style, size)
        put(font, files) ==
            [font |-> font,
             w |-> [cache |-> (key :> font) @@ w.cache, files |-> files]]
    IN  IF key \in DOMAIN w.cache
        THEN [font |-> w.cache[key], w |-> w]
        ELSE IF w.files[style] = "missing"
        THEN IF net = "ok"
             THEN LET files == [w.files EXCEPT ![style] = "good"]
                  IN  put(LoadFont(files, style, size), files)
             ELSE [font |-> SystemFont(size),
                   w |-> [w EXCEPT !.files =
                             IF net = "partial"
                             THEN [w.files EXCEPT ![style] = "corrupt"]
                             ELSE w.files]]
        ELSE put(LoadFont(w.files, style, size), w.files)

\* get_font as one step, in a single thread with the font directory in
\* place, on the world w = [cache, files]: the font returned and the
\* world it leaves
get_font(w, style, size) ==
    LET key == CacheKey(style, size)
        put(font, files) ==
            [font |-> font,
             w |-> [cache |-> (key :> font) @@ w.cache, files |-> files]]
    IN  IF key \in DOMAIN w.cache
        THEN [font |-> w.cache[key], w |-> w]
        ELSE IF w.files[style] = "missing"
        THEN IF net = "ok"
             THEN LET files == [w.files EXCEPT ![style] = "good"]
                  IN  put(LoadFont(files, style, size), files)
             ELSE put(SystemFont(size),
                      IF net = "partial"
                      THEN [w.files EXCEPT ![style] = "corrupt"]
                      ELSE w.files)
        ELSE put(LoadFont(w.files, style, size), w.files)

(***************************************************************************)
(* Text measurement (ImageDraw.textbbox, anchor "mm").  The anchor is the  *)
(* middle of the ascender and descender lines, so the ink of a text need   *)
(* not be centred on it: it reaches `up` above and `down` below the anchor *)
(* (either may be negative, their sum is the ink's height), in hundredths  *)
(* of the font's pixel size.                                               *)
(***************************************************************************)
InkMaxPct == 70

\* texts with letters on the baseline straddle the middle line
LetterInk == [up |-> InkMaxPct \div 2, down |-> InkMaxPct \div 2]

\* any single-line text: its ink lies anywhere between the ascender line
\* and the descender line, each InkMaxPct hundredths from the anchor
InkEdges == {-(InkMaxPct \div 2), 0, InkMaxPct \div 2, InkMaxPct}

InkShapes == {sh \in [up : InkEdges, down : InkEdges] : sh.up + sh.down >= 0}

Dates == {"January 17, 2026", "May 1, 2099"}

\* the strings a caller supplies: a date string, or a text of marks only
CallerTexts == Dates \cup {"'''"}

\* the ink of a text: callerInk for a caller's string, whatever it is
TextInk(text) == IF text \in CallerTexts THEN callerInk ELSE LetterInk

\* draw.textbbox((cx, cy), text, font=font, anchor="mm"): <<x1, y1, x2, y2>>
textbbox(cx, cy, text, font) ==
    LET ink  == TextInk(text)
        half == (Len(text) * font.size) \div 4
    IN  <<cx - half, cy - (font.size * ink.up) \div 100,
          cx + half, cy + (font.size * ink.down) \div 100>>

(***************************************************************************)
(* Drawing.  A canvas is its background and the sequence of draw calls     *)
(* made on it, each with all its arguments.                                *)
(***************************************************************************)
RoundedRectangle(box, radius, fill) ==
    [op |-> "rounded_rectangle", box |-> box, radius |-> radius, fill |-> fill,
     outline |-> NoColor, width |-> 1]

OutlinedRectangle(box, radius, fill, outline, width) ==
    [op |-> "rounded_rectangle", box |-> box, radius |-> radius, fill |-> fill,
     outline |-> outline, width |-> width]

Text(x, y, text, font, fill) ==
    [op |-> "text", at |-> <<x, y>>, text |-> text, font |-> font,
     fill |-> fill, anchor |-> "mm"]

\* draw_text_with_box were it to return the bottom edge itself
draw_text_with_box_nogap(ops, text, center_x, center_y, font, text_color, box_color, padding_x, padding_y, radius) ==
    LET bbox   == textbbox(center_x, center_y, text, font)
        box_x1 == bbox[1] - padding_x
        box_y1 == bbox[2] - padding_y
        box_x2 == bbox[3] + padding_x
        box_y2 == bbox[4] + padding_y
        shadow_offset == 6
    IN  [ops |-> ops \o
            << RoundedRectangle(<<box_x1 + shadow_offset, box_y1 + shadow_offset,
                                  box_x2 + shadow_offset, box_y2 + shadow_offset>>,
                                radius, <<0, 0, 0, 80>>),
               RoundedRectangle(<<box_x1, box_y1, box_x2, box_y2>>, radius,
                                box_color),
               Text(center_x, center_y, text, font, text_color) >>,
         ret |-> box_y2]

\* draw_text_with_box: the draw calls appended and the value returned
draw_text_with_box(ops, text, center_x, center_y, font, text_color, box_color, padding_x, padding_y, radius) ==
    LET bbox   == textbbox(center_x, center_y, text, font)
        box_x1 == bbox[1] - padding_x
        box_y1 == bbox[2] - padding_y
        box_x2 == bbox[3] + padding_x
        box_y2 == bbox[4] + padding_y
        shadow_offset == 6
    IN  [ops |-> ops \o
            << RoundedRectangle(<<box_x1 + shadow_offset, box_y1 + shadow_offset,
                                  box_x2 + shadow_offset, box_y2 + shadow_offset>>,
                                radius, <<0, 0, 0, 80>>),
               RoundedRectangle(<<box_x1, box_y1, box_x2, box_y2>>, radius,
                                box_color),
               Text(center_x, center_y, text, font, text_color) >>,
         ret |-> box_y2 + 20]

(***************************************************************************)
(* draw_puzzle_icon_large                                                  *)
(***************************************************************************)
PuzzleNames == {"wordle", "Wordle", "Quordle", "Colordle", "Semantle",
                "Phoodle", "Sudoku"}

\* str.lower() on the names above
Lower(name) ==
    CASE name = "Wordle"   -> "wordle"
      [] name = "Quordle"  -> "quordle"
      [] name = "Colordle" -> "colordle"
      [] name = "Semantle" -> "semantle"
      [] name = "Phoodle"  -> "phoodle"
      [] name = "Sudoku"   -> "sudoku"
      [] OTHER             -> name

\* int(box_size * 0.6), int(box_size * 0.5), int(box_size * 0.3): the factor
\* is the float nearest num / den
IntScaled(box_size, num, den) == FTrunc(FMulInt(box_size, FDivInt(num, den)))

\* the five-tile clamp were it to have a floor only
ClampRowFloor(box_size) == IF box_size < 80 THEN 80 ELSE box_size

\* lines 138-139 (and 182-183, 198-199, 221-222): the five-tile band
ClampRow(box_size) ==
    IF box_size < 80 THEN 80 ELSE IF box_size > 90 THEN 90 ELSE box_size

\* line 161: the 2x2 grid's floor
ClampGrid(box_size) == IF box_size < 120 THEN 120 ELSE box_size

\* one pass of a tile loop: the tile, then its letter if it has one
DrawTile(st, t) ==
    LET rect == IF t.outline = NoColor
                THEN RoundedRectangle(<<t.x, t.y, t.x + t.size, t.y + t.size>>,
                                      15, t.fill)
                ELSE OutlinedRectangle(<<t.x, t.y, t.x + t.size, t.y + t.size>>,
                                       15, t.fill, t.outline, 4)
    IN  IF t.letter = "none"
        THEN [ops |-> Append(st.ops, rect), w |-> st.w]
        ELSE LET f == get_font(st.w, "bold", t.font_size)
             IN  [ops |-> st.ops \o
                        << rect,
                           Text(t.x + t.size \div 2, t.y + t.size \div 2,
                                t.letter, f.font, White) >>,
                  w |-> f.w]

\* the one element of a singleton: { e : x \in {v} } evaluates v once, where
\* a LET would evaluate it anew at every use of x
The(S) == CHOOSE x \in S : TRUE

RECURSIVE DrawTiles(_, _)
DrawTiles(st, tiles) ==
    IF tiles = <<>> THEN st
    ELSE The({DrawTiles(next, Tail(tiles)) : next \in {DrawTile(st, Head(tiles))}})

\* a row of five tiles centred on (center_x, center_y)
RowTiles(center_x, center_y, box_size, gap, colors, letters, font_size, outline) ==
    LET total_width == 5 * box_size + 4 * gap
        start_x     == center_x - total_width \div 2
        start_y     == center_y - box_size \div 2
    IN  [i \in 1..5 |->
            [x |-> start_x + (i - 1) * (box_size + gap), y |-> start_y,
             size |-> box_size, fill |-> colors[i], letter |-> letters[i],
             font_size |-> font_size, outline |-> outline]]

\* line 209: the semantle tile colors
SemantleColor(i) ==
    IF i = 4 THEN Hex("3", "4", "9", "8", "d", "b")
    ELSE <<"#">> \o Hex2(50 + i * 30) \o Hex2(100 + i * 30) \o Hex2(200 + i * 10)

\* the tiles each branch draws; none for a name that matches no branch
IconTiles(center_x, center_y, puzzle, box_size, gap) ==
    CASE puzzle = "wordle" ->
            LET b == ClampRow(box_size)
            IN  RowTiles(center_x, center_y, b, gap,
                         << Hex("6", "a", "a", "a", "6", "4"),
                            Hex("c", "9", "b", "4", "5", "8"),
                            Hex("6", "a", "a", "a", "6", "4"),
                            Hex("6", "a", "a", "a", "6", "4"),
                            Hex("c", "9", "b", "4", "5", "8") >>,
                         <<"W", "O", "R", "D", "S">>,
                         IntScaled(b, 3, 5), NoColor)
      [] puzzle = "quordle" ->
            LET b          == ClampGrid(box_size)
                total_size == 2 * b + gap
                start_x    == center_x - total_size \div 2
                start_y    == center_y - total_size \div 2
                colors     == << Hex("6", "a", "a", "a", "6", "4"),
                                 Hex("c", "9", "b", "4", "5", "8"),
                                 Hex("7", "8", "7", "c", "7", "e"),
                                 Hex("6", "a", "a", "a", "6", "4") >>
                letters    == <<"Q", "U", "A", "D">>
            IN  [k \in 1..4 |->
                    LET row == (k - 1) \div 2
                        col == (k - 1) % 2
                    IN  [x |-> start_x + col * (b + gap),
                         y |-> start_y + row * (b + gap),
                         size |-> b, fill |-> colors[k], letter |-> letters[k],
                         font_size |-> IntScaled(b, 1, 2), outline |-> NoColor]]
      [] puzzle = "colordle" ->
            LET b == ClampRow(box_size)
            IN  RowTiles(center_x, center_y, b, gap,
                         << Hex("e", "7", "4", "c", "3", "c"),
                            Hex("f", "3", "9", "c", "1", "2"),
                            Hex("f", "1", "c", "4", "0", "f"),
                            Hex("2", "e", "c", "c", "7", "1"),
                            Hex("3", "4", "9", "8", "d", "b") >>,
                         [i \in 1..5 |-> "none"], 0, White)
      [] puzzle = "semantle" ->
            LET b == ClampRow(box_size)
            IN  RowTiles(center_x, center_y, b, gap,
                         [i \in 1..5 |-> SemantleColor(i - 1)],
                         [i \in 1..5 |-> IF i = 5 THEN "TOP" ELSE "none"],
                         IntScaled(b, 3, 10), NoColor)
      [] puzzle = "phoodle" ->
            LET b == ClampRow(box_size)
            IN  RowTiles(center_x, center_y, b, gap,
                         << Hex("e", "6", "7", "e", "2", "2"),
                            Hex("2", "7", "a", "e", "6", "0"),
                            Hex("e", "7", "4", "c", "3", "c"),
                            Hex("f", "3", "9", "c", "1", "2"),
                            Hex("2", "e", "c", "c", "7", "1") >>,
                         <<"F", "O", "O", "D", "S">>,
                         IntScaled(b, 3, 5), NoColor)
      [] OTHER -> <<>>

\* draw_puzzle_icon_large on the state st = [ops, w]
draw_puzzle_icon_large(st, center_x, center_y, puzzle_name, box_size, gap) ==
    The({DrawTiles(st, tiles) :
            tiles \in {IconTiles(center_x, center_y, Lower(puzzle_name),
                                 box_size, gap)}})

(***************************************************************************)
(* The two templates                                                       *)
(***************************************************************************)
\* lines 248-254 and 324-330: the table each call builds afresh
themes ==
    [wordle   |-> [gradient |-> << Hex("5", "3", "8", "d", "4", "e"),
                                   Hex("3", "a", "5", "f", "3", "a") >>,
                   accent   |-> Hex("6", "a", "a", "a", "6", "4")],
     quordle  |-> [gradient |-> << Hex("9", "b", "5", "9", "b", "6"),
                                   Hex("6", "c", "3", "4", "8", "3") >>,
                   accent   |-> Hex("a", "8", "5", "5", "f", "7")],
     colordle |-> [gradient |-> << Hex("e", "7", "4", "c", "3", "c"),
                                   Hex("9", "2", "2", "b", "2", "1") >>,
                   accent   |-> Hex("e", "7", "4", "c", "3", "c")],
     semantle |-> [gradient |-> << Hex("3", "4", "9", "8", "d", "b"),
                                   Hex("1", "a", "5", "2", "7", "6") >>,
                   accent   |-> Hex("3", "4", "9", "8", "d", "b")],
     phoodle  |-> [gradient |-> << Hex("e", "6", "7", "e", "2", "2"),
                                   Hex("a", "0", "4", "0", "0", "0") >>,
                   accent   |-> Hex("f", "3", "9", "c", "1", "2")]]

\* theme_colors=None; like the empty list it is false in `if theme_colors:`
None == <<>>

\* the truth value of the theme_colors argument
Truthy(theme_colors) == theme_colors # None

\* the lookup were its default another topic's theme
LookupThemeOther(puzzle_name, theme_colors) ==
    LET key   == Lower(puzzle_name)
        theme == IF key \in DOMAIN themes THEN themes[key] ELSE themes["quordle"]
    IN  IF Truthy(theme_colors)
        THEN [theme EXCEPT !.gradient = theme_colors]
        ELSE theme

\* the lookup were the table kept at module level, as the render before
\* left it
LookupThemeShared(puzzle_name, theme_colors) ==
    LET table == IF last.valid THEN last.themes ELSE themes
        key   == Lower(puzzle_name)
        theme == IF key \in DOMAIN table THEN table[key] ELSE table["wordle"]
    IN  IF Truthy(theme_colors)
        THEN [theme EXCEPT !.gradient = theme_colors]
        ELSE theme

\* the table the call built on line 248 (324), as line 258 (334) leaves it:
\* theme is the entry itself, so the override is written into the table
ThemesAfter(puzzle_name, theme_colors) ==
    LET key   == Lower(puzzle_name)
        entry == IF key \in DOMAIN themes THEN key ELSE "wordle"
    IN  IF Truthy(theme_colors)
        THEN [themes EXCEPT ![entry].gradient = theme_colors]
        ELSE themes

\* lines 256-258 and 332-334
LookupTheme(puzzle_name, theme_colors) ==
    LET key   == Lower(puzzle_name)
        theme == IF key \in DOMAIN themes THEN themes[key] ELSE themes["wordle"]
    IN  IF Truthy(theme_colors)
        THEN [theme EXCEPT !.gradient = theme_colors]
        ELSE theme

\* lines 267-269 and 343-345: one ellipse of radius r around every point of
\* the grid range(0, width, step) x range(0, height, step)
EllipseGrid(width, height, step, r, fill) ==
    [op |-> "ellipse_grid", width |-> width, height |-> height, step |-> step,
     r |-> r, fill |-> fill]

Line(x1, y1, x2, y2, fill, width) ==
    [op |-> "line", box |-> <<x1, y1, x2, y2>>, fill |-> fill, width |-> width]

Gradient(width, height, start_color, end_color, direction) ==
    [width |-> width, height |-> height, start_color |-> start_color,
     end_color |-> end_color, direction |-> direction]

\* One step of a template, on the state st = [ops, w, next_y, y]: the font
\* is fetched, the element drawn at its center Y (absolute, or relative to
\* the running next_y) and next_y moved on.
\*   "icon": draw_puzzle_icon_large at (center_x, center_y)
\*   "box" : get_font, then draw_text_with_box; `assign` tells whether the
\*           value returned is assigned to next_y
\*   "text": get_font, then draw.text at next_y + offset; next_y = that + after
\*   "line": draw.line
Step(st, s) ==
    CASE s.do = "icon" ->
            The({[st EXCEPT !.ops = d.ops, !.w = d.w,
                            !.y = ("icon" :> s.center_y) @@ st.y] :
                    d \in {draw_puzzle_icon_large([ops |-> st.ops, w |-> st.w],
                                                  s.center_x, s.center_y,
                                                  s.puzzle_name, s.box_size,
                                                  s.gap)}})
      [] s.do = "box" ->
            The({The({[ops |-> d.ops, w |-> f.w,
                       next_y |-> IF s.assign THEN d.ret ELSE st.next_y,
                       y |-> (s.name :> cy) @@ st.y] :
                      d \in {draw_text_with_box(st.ops, s.text, s.center_x, cy,
                                                f.font, s.text_color,
                                                s.box_color, s.padding_x,
                                                s.padding_y, s.radius)}}) :
                 f  \in {get_font(st.w, s.style, s.size)},
                 cy \in {IF s.absolute THEN s.center_y
                         ELSE st.next_y + s.center_y}})
      [] s.do = "text" ->
            The({[ops |-> Append(st.ops, Text(s.center_x, cy, s.text, f.font,
                                              s.fill)),
                  w |-> f.w, next_y |-> cy + s.after,
                  y |-> (s.name :> cy) @@ st.y] :
                 f  \in {get_font(st.w, s.style, s.size)},
                 cy \in {st.next_y + s.offset}})
      [] s.do = "line" ->
            [st EXCEPT !.ops = Append(st.ops, Line(s.x1, s.y1, s.x2, s.y2,
                                                   s.fill, s.width))]

RECURSIVE Steps(_, _)
Steps(st, steps) ==
    IF steps = <<>> THEN st
    ELSE The({Steps(next, Tail(steps)) :
                 next \in {The({Step(st, s) : s \in {Head(steps)}})}})

\* a boxed text placed at its Y whatever the cursor
BoxAbsolute(name, style, size, text, center_x, absolute, center_y, text_color, box_color, padding_x, padding_y, radius, assign) ==
    [do |-> "box", name |-> name, style |-> style, size |-> size, text |-> text,
     center_x |-> center_x, absolute |-> TRUE, center_y |-> center_y,
     text_color |-> text_color, box_color |-> box_color,
     padding_x |-> padding_x, padding_y |-> padding_y, radius |-> radius,
     assign |-> assign]

\* a boxed text placed at its Y below the cursor
BoxRelative(name, style, size, text, center_x, absolute, center_y, text_color, box_color, padding_x, padding_y, radius, assign) ==
    [do |-> "box", name |-> name, style |-> style, size |-> size, text |-> text,
     center_x |-> center_x, absolute |-> FALSE, center_y |-> center_y,
     text_color |-> text_color, box_color |-> box_color,
     padding_x |-> padding_x, padding_y |-> padding_y, radius |-> radius,
     assign |-> assign]

Box(name, style, size, text, center_x, absolute, center_y, text_color, box_color, padding_x, padding_y, radius, assign) ==
    [do |-> "box", name |-> name, style |-> style, size |-> size, text |-> text,
     center_x |-> center_x, absolute |-> absolute, center_y |-> center_y,
     text_color |-> text_color, box_color |-> box_color,
     padding_x |-> padding_x, padding_y |-> padding_y, radius |-> radius,
     assign |-> assign]

\* the icon were it centred twice as far right
IconOffCentre(center_x, center_y, puzzle_name, box_size, gap) ==
    [do |-> "icon", center_x |-> 2 * center_x, center_y |-> center_y,
     puzzle_name |-> puzzle_name, box_size |-> box_size, gap |-> gap]

Icon(center_x, center_y, puzzle_name, box_size, gap) ==
    [do |-> "icon", center_x |-> center_x, center_y |-> center_y,
     puzzle_name |-> puzzle_name, box_size |-> box_size, gap |-> gap]

NoY == [n \in {} |-> 0]

\* lines 271-308: the portrait template, in the order of its statements
PinterestTemplate(width, puzzle_name, date_str, theme) ==
    LET center_x == width \div 2
    IN  << Icon(center_x, 320, puzzle_name, 110, 15),
           \* title_y = 600; next_y = draw_text_with_box(...)
           Box("title", "bold", 80, puzzle_name \o " Answer", center_x,
               TRUE, 600, Black, White, 40, 20, 30, TRUE),
           \* for_y = next_y + 30; next_y = for_y + 40
           [do |-> "text", name |-> "caption", style |-> "regular", size |-> 40,
            text |-> "for", center_x |-> center_x, offset |-> 30, after |-> 40,
            fill |-> White],
           \* date_y = next_y + 60; next_y = draw_text_with_box(...)
           Box("date", "bold", 70, date_str, center_x,
               FALSE, 60, White, Black, 40, 20, 30, TRUE),
           \* cta_y = next_y + 80; the value returned is dropped
           Box("cta", "semibold", 45, "Get Today's Hints & Answer", center_x,
               FALSE, 80, <<255, 255, 220>>, <<0, 0, 0, 100>>, 30, 15, 25, FALSE),
           \* brand_y = 1380
           Box("brand", "bold", 50, "wordsolverx.com", center_x,
               TRUE, 1380, hex_to_rgb(theme.gradient[2]), White, 50, 25, 50,
               FALSE) >>

\* generate_pinterest_image in the world w: the image saved, the world left
\* and the center Y of each element
generate_pinterest_image(w, puzzle_name, date_str, theme_colors) ==
    The({The({[img |-> [bg  |-> Gradient(1000, 1500,
                                         hex_to_rgb(theme.gradient[1]),
                                         hex_to_rgb(theme.gradient[2]),
                                         "vertical"),
                        ops |-> done.ops],
               w   |-> done.w,
               y   |-> done.y,
               themes |-> ThemesAfter(puzzle_name, theme_colors)] :
              done \in {Steps([ops |-> <<EllipseGrid(1000, 1500, 60, 4,
                                                     <<255, 255, 255, 30>>)>>,
                               w |-> w, next_y |-> 0, y |-> NoY],
                              PinterestTemplate(1000, puzzle_name, date_str, theme))}}) :
         theme \in {LookupTheme(puzzle_name, theme_colors)}})

\* lines 347-388: the landscape template
FacebookTemplate(width, height, puzzle_name, date_str, theme) ==
    LET divider_x        == 550
        content_center_x == divider_x + (width - divider_x) \div 2
        icon_center_x    == divider_x \div 2
        five             == Lower(puzzle_name) \in
                                {"wordle", "phoodle", "colordle", "semantle"}
    IN  << [do |-> "line", x1 |-> divider_x, y1 |-> 0, x2 |-> divider_x,
            y2 |-> height, fill |-> <<255, 255, 255, 120>>, width |-> 4],
           Icon(icon_center_x, height \div 2, puzzle_name,
                IF five THEN 90 ELSE 110, IF five THEN 10 ELSE 15),
           \* title_y = 130; next_y = draw_text_with_box(...)
           Box("title", "bold", 60, puzzle_name \o " Answer", content_center_x,
               TRUE, 130, Black, White, 30, 15, 25, TRUE),
           \* date_y = next_y + 70; next_y = draw_text_with_box(...)
           Box("date", "bold", 50, date_str, content_center_x,
               FALSE, 70, White, Black, 30, 15, 25, TRUE),
           \* cta_y = next_y + 70; the value returned is dropped
           Box("cta", "semibold", 35, "Get Hints & Solutions", content_center_x,
               FALSE, 70, <<255, 255, 220>>, <<0, 0, 0, 80>>, 25, 12, 20, FALSE),
           \* brand_y = 560
           Box("brand", "bold", 30, "wordsolverx.com", content_center_x,
               TRUE, 560, hex_to_rgb(theme.gradient[2]), White, 30, 12, 30,
               FALSE) >>

\* generate_facebook_image, likewise
generate_facebook_image(w, puzzle_name, date_str, theme_colors) ==
    The({The({[img |-> [bg  |-> Gradient(1200, 628,
                                         hex_to_rgb(theme.gradient[1]),
                                         hex_to_rgb(theme.gradient[2]),
                                         "horizontal"),
                        ops |-> done.ops],
               w   |-> done.w,
               y   |-> done.y,
               themes |-> ThemesAfter(puzzle_name, theme_colors)] :
              done \in {Steps([ops |-> <<EllipseGrid(1200, 628, 50, 3,
                                                     <<255, 255, 255, 30>>)>>,
                               w |-> w, next_y |-> 0, y |-> NoY],
                              FacebookTemplate(1200, 628, puzzle_name, date_str, theme))}}) :
         theme \in {LookupTheme(puzzle_name, theme_colors)}})

(***************************************************************************)
(* State machine.  The environment (network, system font, font directory,  *)
(* ink of the date strings) is drawn once and then fixed: the font         *)
(* provider is deterministic.                                              *)
(***************************************************************************)
NoFonts == [k \in {} |-> DefaultFont]

World == [cache |-> FONT_CACHE, files |-> fontFiles]

\* the font directory is empty or holds the three files; the network is read
\* only when a file is missing and the system font only when a download fails
FontEnvInit ==
    /\ FONT_CACHE = NoFonts
    /\ fontFiles \in {[s \in Styles |-> "missing"], [s \in Styles |-> "good"]}
    /\ net \in {"ok", "fail", "partial"}
    /\ arialOK \in BOOLEAN
    /\ fontFiles["bold"] = "good" => net = "ok"
    /\ net = "ok" => arialOK
    /\ fontDir = "ok"

FontEnvPlain ==
    /\ FONT_CACHE = NoFonts
    /\ fontFiles = [s \in Styles |-> "good"]
    /\ net = "ok"
    /\ arialOK = TRUE
    /\ fontDir = "ok"

\* --- the drawing functions called on their own ---------------------------
MaxDim == 4

GradColors == {<<29, 29, 29>>, <<1, 7, 255>>, <<200, 0, 50>>}

GradientCalls ==
    [fn : {"create_gradient"}, width : 1..MaxDim, height : 1..MaxDim,
     start_color : GradColors, end_color : GradColors, direction : Directions]

BoxCalls ==
    [fn : {"draw_text_with_box"},
     text : {"'''", "wordsolverx.com"},
     center_x : {500}, center_y : {0, 600},
     font : {TrueType("bold", 70), TrueType("bold", 120), DefaultFont},
     box_color : {White, <<0, 0, 0, 100>>, <<0, 0, 0, 0>>},
     padding_x : {30}, padding_y : {0, 15}, radius : {25}]

IconCalls ==
    [fn : {"draw_puzzle_icon_large"}, center_x : {275, 500}, center_y : {314},
     puzzle_name : PuzzleNames,
     box_size : {60, 79, 80, 85, 90, 91, 110, 119, 120, 121, 150},
     gap : {10, 15}]

Idle == [fn |-> "idle"]
Pending == [done |-> FALSE]
NoRender == [valid |-> FALSE]
Unarmed == [valid |-> FALSE, armed |-> FALSE]
Armed == [valid |-> FALSE, armed |-> TRUE]

InitFn ==
    /\ fout = Pending
    /\ last = NoRender
    /\ first = Unarmed
    /\ \/ fin \in GradientCalls /\ FontEnvPlain /\ callerInk = LetterInk
       \/ fin \in BoxCalls /\ FontEnvPlain /\ callerInk \in InkShapes
       \/ fin \in IconCalls /\ FontEnvInit /\ callerInk = LetterInk

CallCreateGradient ==
    /\ fin.fn = "create_gradient" /\ ~fout.done
    /\ fout' = [done |-> TRUE,
                img  |-> create_gradient(fin.width, fin.height, fin.start_color,
                                         fin.end_color, fin.direction)]
    /\ UNCHANGED <<fin, FONT_CACHE, fontFiles, net, fontDir, arialOK, callerInk,
                   last, first>>

CallDrawTextWithBox ==
    /\ fin.fn = "draw_text_with_box" /\ ~fout.done
    /\ \E r \in {draw_text_with_box(<<>>, fin.text, fin.center_x, fin.center_y,
                                      fin.font, Black, fin.box_color,
                                      fin.padding_x, fin.padding_y, fin.radius)} :
           fout' = [done |-> TRUE, ops |-> r.ops, ret |-> r.ret]
    /\ UNCHANGED <<fin, FONT_CACHE, fontFiles, net, fontDir, arialOK, callerInk,
                   last, first>>

CallDrawPuzzleIcon ==
    /\ fin.fn = "draw_puzzle_icon_large" /\ ~fout.done
    /\ \E st \in {draw_puzzle_icon_large([ops |-> <<>>, w |-> World],
                                           fin.center_x, fin.center_y,
                                           fin.puzzle_name, fin.box_size,
                                           fin.gap)} :
           /\ fout' = [done |-> TRUE, ops |-> st.ops]
           /\ FONT_CACHE' = st.w.cache
           /\ fontFiles' = st.w.files
    /\ UNCHANGED <<fin, net, fontDir, arialOK, callerInk, last, first>>

NextFn == CallCreateGradient \/ CallDrawTextWithBox \/ CallDrawPuzzleIcon

SpecFn == InitFn /\ [][NextFn]_vars

\* --- the renders ---------------------------------------------------------
RenderNames == {"wordle", "Quordle", "Sudoku"}

\* theme_colors: absent, or the gradient main.py passes for Wordle
Overrides == {None, << Hex("6", "a", "a", "a", "6", "4"),
                         Hex("5", "3", "8", "d", "4", "e") >>}

\* the renders of every topic main.py knows, of one day, none with an override
AllTopics == [fn |-> "topics"]

Requests ==
    IF fin = AllTopics
    THEN [kind : {"pinterest", "facebook"}, puzzle_name : PuzzleNames,
          date_str : {"January 17, 2026"}, theme_colors : {None}]
    ELSE [kind : {"pinterest", "facebook"}, puzzle_name : RenderNames,
          date_str : Dates, theme_colors : Overrides]

Init ==
    /\ fin = Idle
    /\ fout = Pending
    /\ FontEnvInit
    /\ callerInk \in InkShapes
    /\ last = NoRender
    /\ first = Unarmed

\* the render of a request done, and possibly kept for later comparison
Rendered(req, r) ==
    /\ last' = [valid |-> TRUE, req |-> req, img |-> r.img, y |-> r.y,
                themes |-> r.themes]
    /\ FONT_CACHE' = r.w.cache
    /\ fontFiles' = r.w.files
    /\ \/ first' = first
       \/ /\ first.armed /\ ~first.valid
          /\ first' = [valid |-> TRUE, armed |-> TRUE, req |-> req,
                        img |-> r.img, cold |-> FONT_CACHE = NoFonts]
    /\ UNCHANGED <<fin, fout, net, fontDir, arialOK, callerInk>>

Pinterest ==
    \E req \in Requests :
        /\ req.kind = "pinterest"
        /\ \E r \in {generate_pinterest_image(World, req.puzzle_name,
                                               req.date_str, req.theme_colors)} :
               Rendered(req, r)

Facebook ==
    \E req \in Requests :
        /\ req.kind = "facebook"
        /\ \E r \in {generate_facebook_image(World, req.puzzle_name,
                                              req.date_str, req.theme_colors)} :
               Rendered(req, r)

Next == Pinterest \/ Facebook

Spec == Init /\ [][Next]_vars

\* the same renders, with one of them remembered for comparison with the
\* later ones
InitRepeat ==
    /\ fin = Idle
    /\ fout = Pending
    /\ FontEnvInit
    /\ callerInk = LetterInk
    /\ last = NoRender
    /\ first = Armed

SpecRepeat == InitRepeat /\ [][Next]_vars

\* the renders of all the topics
InitTopics ==
    /\ fin = AllTopics
    /\ fout = Pending
    /\ FontEnvInit
    /\ callerInk \in InkShapes
    /\ last = NoRender
    /\ first = Unarmed

SpecTopics == InitTopics /\ [][Next]_vars

\* --- get_font, statement by statement, in concurrent threads -------------
Threads == {1, 2}

MaxCalls == 2

FontSizes == {50, 80}

FontCalls == [fn : {"get_font"}, style : Styles, size : FontSizes]

\* a font object: what was loaded, and the call that made it
Handle(font, t, n) == [font |-> font, obj |-> <<t, n>>]

\* thread t at one of: "idle" (no call open), "check" (line 23),
\* "mkdir" (27), "exists" (31), "retrieve" (35, about to start),
\* "download" (35, writing the file), "fallback" (39-46), "load" (48-55),
\* "raised" (an exception left get_font)
At(t, pc) == fin.fn = "get_font" /\ fout.th[t].pc = pc

Goto(t, pc) == [fout EXCEPT !.th[t].pc = pc]

\* FONT_CACHE[cache_key] = font; return font
StoreAndReturn(t, font, out) ==
    LET h == Handle(font, t, fout.th[t].calls)
    IN  /\ FONT_CACHE' = (CacheKey(fin.style, fin.size) :> h) @@ FONT_CACHE
        /\ fout' = [out EXCEPT !.th[t].pc = "idle", !.th[t].ret = <<h>>,
                               !.loads = @ + 1]

\* what no statement of get_font writes
FontFrame == UNCHANGED <<fin, net, fontDir, arialOK, callerInk, last, first>>

InitFont ==
    /\ fin \in FontCalls
    /\ fout = [done |-> FALSE, downloads |-> 0, loads |-> 0,
               th |-> [t \in Threads |->
                          [pc |-> "idle", calls |-> 0, ret |-> <<>>]]]
    /\ FONT_CACHE = NoFonts
    /\ fontFiles \in {[s \in Styles |-> "missing"], [s \in Styles |-> "good"]}
    /\ net \in {"ok", "fail", "partial"}
    /\ arialOK \in BOOLEAN
    /\ fontDir \in {"ok", "blocked"}
    /\ callerInk = LetterInk
    /\ last = NoRender
    /\ first = Unarmed

\* a caller enters get_font(style, size)
Call(t) ==
    /\ At(t, "idle") /\ fout.th[t].calls < MaxCalls
    /\ fout' = [fout EXCEPT !.th[t].pc = "check", !.th[t].calls = @ + 1,
                            !.th[t].ret = <<>>]
    /\ UNCHANGED <<FONT_CACHE, fontFiles>>
    /\ FontFrame

\* lines 23-24
CheckCache(t) ==
    /\ At(t, "check")
    /\ LET key == CacheKey(fin.style, fin.size)
       IN  fout' = IF key \in DOMAIN FONT_CACHE
                   THEN [fout EXCEPT !.th[t].pc = "idle",
                                     !.th[t].ret = <<FONT_CACHE[key]>>]
                   ELSE Goto(t, "mkdir")
    /\ UNCHANGED <<FONT_CACHE, fontFiles>>
    /\ FontFrame

\* lines 26-27: os.makedirs, in no try block
MakeDir(t) ==
    /\ At(t, "mkdir")
    /\ fout' = Goto(t, IF fontDir = "ok" THEN "exists" ELSE "raised")
    /\ UNCHANGED <<FONT_CACHE, fontFiles>>
    /\ FontFrame

\* line 31
Exists(t) ==
    /\ At(t, "exists")
    /\ fout' = Goto(t, IF fontFiles[fin.style] = "missing" THEN "retrieve"
                       ELSE "load")
    /\ UNCHANGED <<FONT_CACHE, fontFiles>>
    /\ FontFrame

\* line 35: urlretrieve opens the file and starts to write, or fails at once
Retrieve(t) ==
    /\ At(t, "retrieve")
    /\ LET out == [fout EXCEPT !.downloads = @ + 1]
       IN  IF net = "fail"
           THEN /\ fout' = [out EXCEPT !.th[t].pc = "fallback"]
                /\ UNCHANGED fontFiles
           ELSE /\ fout' = [out EXCEPT !.th[t].pc = "download"]
                /\ fontFiles' = [fontFiles EXCEPT ![fin.style] = "corrupt"]
    /\ UNCHANGED FONT_CACHE
    /\ FontFrame

\* line 35: urlretrieve ends; the file is whole once no thread writes it
Finish(t) ==
    /\ At(t, "download")
    /\ IF net = "ok"
       THEN /\ fout' = Goto(t, "load")
            /\ fontFiles' =
                   IF \E u \in Threads \ {t} : fout.th[u].pc = "download"
                   THEN fontFiles
                   ELSE [fontFiles EXCEPT ![fin.style] = "good"]
       ELSE /\ fout' = Goto(t, "fallback")
            /\ UNCHANGED fontFiles
    /\ UNCHANGED FONT_CACHE
    /\ FontFrame

\* lines 36-46
Fallback(t) ==
    /\ At(t, "fallback")
    /\ StoreAndReturn(t, SystemFont(fin.size), fout)
    /\ UNCHANGED fontFiles
    /\ FontFrame

\* lines 48-55
Load(t) ==
    /\ At(t, "load")
    /\ StoreAndReturn(t, LoadFont(fontFiles, fin.style, fin.size), fout)
    /\ UNCHANGED fontFiles
    /\ FontFrame

NextFont ==
    \E t \in Threads :
        \/ Call(t) \/ CheckCache(t) \/ MakeDir(t) \/ Exists(t)
        \/ Retrieve(t) \/ Finish(t) \/ Fallback(t) \/ Load(t)

SpecFont == InitFont /\ [][NextFont]_vars

\* --- run_social_post, statement by statement -----------------------------
\* main.py lines 22-53
PUZZLES ==
    [wordle   |-> [name |-> "Wordle", board_id |-> "924434329702687588",
                   gradient |-> << Hex("6", "a", "a", "a", "6", "4"),
                                   Hex("5", "3", "8", "d", "4", "e") >>],
     quordle  |-> [name |-> "Quordle", board_id |-> "924434329702687592",
                   gradient |-> << Hex("9", "b", "5", "9", "b", "6"),
                                   Hex("8", "e", "4", "4", "a", "d") >>],
     colordle |-> [name |-> "Colordle", board_id |-> "924434329702687590",
                   gradient |-> << Hex("e", "7", "4", "c", "3", "c"),
                                   Hex("c", "0", "3", "9", "2", "b") >>],
     semantle |-> [name |-> "Semantle", board_id |-> "924434329702687594",
                   gradient |-> << Hex("3", "4", "9", "8", "d", "b"),
                                   Hex("2", "9", "8", "0", "b", "9") >>],
     phoodle  |-> [name |-> "Phoodle", board_id |-> "924434329702687593",
                   gradient |-> << Hex("f", "3", "9", "c", "1", "2"),
                                   Hex("e", "6", "7", "e", "2", "2") >>]]

\* the keys run_social_post is called with: those of PUZZLES and two others
PuzzleKeys == DOMAIN PUZZLES \cup {"Wordle", "sudoku"}

\* what the platform does with a request that reaches it: it answers with an
\* id, answers without one, or the request raises
Replies == {"id", "error", "exception"}

PostCalls ==
    [fn : {"run_social_post"}, puzzle_key : PuzzleKeys,
     date_display : {"January 17, 2026"},
     PINTEREST_ACCESS_TOKEN : BOOLEAN, FACEBOOK_ACCESS_TOKEN : BOOLEAN]

\* os.remove(path) never called
RemoveNothing(files, path) == files

\* os.remove(path)
Remove(files, path) == files \ {path}

\* pinterest_poster.py: the value returned, "id" for the pin id
upload_image_to_pinterest(files, image_path, board_id, access_token, reply) ==
    IF ~access_token THEN "None"
    ELSE IF board_id = "" THEN "None"
    ELSE IF image_path \notin files THEN "None"
    ELSE IF reply = "id" THEN "id"
    ELSE "None"

\* facebook_poster.py: the value returned, "id" for the post id
post_image_to_facebook(files, image_path, access_token, reply) ==
    IF ~access_token THEN "None"
    ELSE IF image_path \notin files THEN "None"
    ELSE IF reply = "id" THEN "id"
    ELSE "None"

\* run_social_post at one of: "start" (main.py line 121),
\* "generate_pinterest" (140), "upload_pinterest" (151), "cleanup_pinterest"
\* (159), "generate_facebook" (165), "post_facebook" (176),
\* "cleanup_facebook" (181), "returned", "raised" (an exception left
\* run_social_post)
AtPost(pc) == fin.fn = "run_social_post" /\ fout.pc = pc

PostFrame == UNCHANGED <<fin, net, fontDir, arialOK, callerInk, first>>

InitPost ==
    /\ fin \in PostCalls
    /\ fout = [pc |-> "start", files |-> {}, pinterest_image |-> None,
               facebook_image |-> None, calls |-> <<>>]
    /\ FONT_CACHE = NoFonts
    /\ fontFiles \in {[s \in Styles |-> "missing"], [s \in Styles |-> "good"]}
    /\ net \in {"ok", "fail", "partial"}
    /\ arialOK \in BOOLEAN
    /\ fontFiles["bold"] = "good" => net = "ok"
    /\ net = "ok" => arialOK
    /\ fontDir \in {"ok", "blocked"}
    /\ callerInk = LetterInk
    /\ last = NoRender
    /\ first = Unarmed

\* lines 121-123
CheckKey ==
    /\ AtPost("start")
    /\ fout' = [fout EXCEPT !.pc = IF fin.puzzle_key \in DOMAIN PUZZLES
                                   THEN "generate_pinterest" ELSE "returned"]
    /\ UNCHANGED <<FONT_CACHE, fontFiles, last>>
    /\ PostFrame

\* a generate call: the first get_font of an image raises when the font
\* directory cannot be made, and nothing catches it; otherwise the image is
\* drawn and saved under a new temporary name, which is returned
Generated(kind, path, r) ==
    /\ last' = [valid |-> TRUE,
                req |-> [kind |-> kind, puzzle_name |-> PUZZLES[fin.puzzle_key].name,
                         date_str |-> fin.date_display,
                         theme_colors |-> PUZZLES[fin.puzzle_key].gradient],
                img |-> r.img, y |-> r.y, themes |-> r.themes]
    /\ FONT_CACHE' = r.w.cache
    /\ fontFiles' = r.w.files
    /\ PostFrame

Raised ==
    /\ fontDir = "blocked"
    /\ fout' = [fout EXCEPT !.pc = "raised"]
    /\ UNCHANGED <<FONT_CACHE, fontFiles, last>>
    /\ PostFrame

\* lines 138-148; image_generator.py lines 240-314.  The name returned is
\* never empty, so line 146 always takes the else branch.
GeneratePinterest ==
    /\ AtPost("generate_pinterest")
    /\ \/ Raised
       \/ /\ fontDir = "ok"
          /\ \E r \in {generate_pinterest_image(World, PUZZLES[fin.puzzle_key].name,
                                                 fin.date_display,
                                                 PUZZLES[fin.puzzle_key].gradient)} :
                 Generated("pinterest", "tmp1_pinterest.png", r)
          /\ fout' = [fout EXCEPT !.pc = "upload_pinterest",
                                  !.files = @ \cup {"tmp1_pinterest.png"},
                                  !.pinterest_image = <<"tmp1_pinterest.png">>,
                                  !.calls = Append(@, [fn |-> "generate_pinterest_image",
                                                       image_path |-> "tmp1_pinterest.png",
                                                       ret |-> "path"])]

\* lines 149-157
UploadPinterest ==
    /\ AtPost("upload_pinterest")
    /\ \E reply \in Replies :
           fout' = [fout EXCEPT !.pc = "cleanup_pinterest",
                                !.calls = Append(@,
                                    [fn |-> "upload_image_to_pinterest",
                                     image_path |-> fout.pinterest_image[1],
                                     ret |-> upload_image_to_pinterest(
                                                 fout.files, fout.pinterest_image[1],
                                                 PUZZLES[fin.puzzle_key].board_id,
                                                 fin.PINTEREST_ACCESS_TOKEN, reply)])]
    /\ UNCHANGED <<FONT_CACHE, fontFiles, last>>
    /\ PostFrame

\* lines 158-161
CleanupPinterest ==
    /\ AtPost("cleanup_pinterest")
    /\ fout' = [fout EXCEPT !.pc = "generate_facebook",
                            !.files = IF fout.pinterest_image[1] \in @
                                      THEN Remove(@, fout.pinterest_image[1])
                                      ELSE @]
    /\ UNCHANGED <<FONT_CACHE, fontFiles, last>>
    /\ PostFrame

\* lines 163-173; image_generator.py lines 317-394
GenerateFacebook ==
    /\ AtPost("generate_facebook")
    /\ \/ Raised
       \/ /\ fontDir = "ok"
          /\ \E r \in {generate_facebook_image(World, PUZZLES[fin.puzzle_key].name,
                                                fin.date_display,
                                                PUZZLES[fin.puzzle_key].gradient)} :
                 Generated("facebook", "tmp2_facebook.png", r)
          /\ fout' = [fout EXCEPT !.pc = "post_facebook",
                                  !.files = @ \cup {"tmp2_facebook.png"},
                                  !.facebook_image = <<"tmp2_facebook.png">>,
                                  !.calls = Append(@, [fn |-> "generate_facebook_image",
                                                       image_path |-> "tmp2_facebook.png",
                                                       ret |-> "path"])]

\* lines 174-179
PostFacebook ==
    /\ AtPost("post_facebook")
    /\ \E reply \in Replies :
           fout' = [fout EXCEPT !.pc = "cleanup_facebook",
                                !.calls = Append(@,
                                    [fn |-> "post_image_to_facebook",
                                     image_path |-> fout.facebook_image[1],
                                     ret |-> post_image_to_facebook(
                                                 fout.files, fout.facebook_image[1],
                                                 fin.FACEBOOK_ACCESS_TOKEN, reply)])]
    /\ UNCHANGED <<FONT_CACHE, fontFiles, last>>
    /\ PostFrame

\* lines 180-183
CleanupFacebook ==
    /\ AtPost("cleanup_facebook")
    /\ fout' = [fout EXCEPT !.pc = "returned",
                            !.files = IF fout.facebook_image[1] \in @
                                      THEN Remove(@, fout.facebook_image[1])
                                      ELSE @]
    /\ UNCHANGED <<FONT_CACHE, fontFiles, last>>
    /\ PostFrame

NextPost ==
    \/ CheckKey \/ GeneratePinterest \/ UploadPinterest \/ CleanupPinterest
    \/ GenerateFacebook \/ PostFacebook \/ CleanupFacebook

\* the statements of run_social_post run one after the other, and each call
\* that is made comes back or raises: every step is weakly fair.  A generate
\* step is enabled exactly when run_social_post is at it, and its fairness
\* is written with that.
SpecPost ==
    /\ InitPost /\ [][NextPost]_vars
    /\ WF_vars(CheckKey)
    /\ WF_vars(UploadPinterest) /\ WF_vars(CleanupPinterest)
    /\ WF_vars(PostFacebook) /\ WF_vars(CleanupFacebook)
    /\ ([]<>~AtPost("generate_pinterest") \/ []<><<GeneratePinterest>>_vars)
    /\ ([]<>~AtPost("generate_facebook") \/ []<><<GenerateFacebook>>_vars)


(***************************************************************************)
(* Properties                                                              *)
(***************************************************************************)

\* C1: two renders of the same request in one process give the same image,
\* whatever renders ran in between and whatever FONT_CACHE held at each call
\* (first is a render kept earlier in the run, last the latest one)
C1_SameRequestSameImage ==
    (first.valid /\ last.valid /\ last.req = first.req) => last.img = first.img

\* a portrait render made on an empty cache, landscape renders after it
\* (their 30 px brand font is cached), and the same portrait request again
C1_Witness ==
    /\ first.valid /\ last.valid
    /\ last.req = first.req
    /\ first.req.kind = "pinterest"
    /\ first.cold
    /\ CacheKey("bold", 30) \in DOMAIN FONT_CACHE
    /\ net = "partial"

\* the channel the formula of the claim gives in exact arithmetic:
\* start*(1-t) + end*t with t = num/den, truncated
ExactChannel(s, e, num, den) == (s * (den - num) + e * num) \div den

\* t = num/den of pixel (x, y)
RatioNum(direction, x, y) ==
    CASE direction = "vertical"   -> y
      [] direction = "horizontal" -> x
      [] direction = "diagonal"   -> x + y

RatioDen(direction, width, height) ==
    CASE direction = "vertical"   -> height
      [] direction = "horizontal" -> width
      [] direction = "diagonal"   -> width + height

\* C2: every channel of every pixel of create_gradient is
\* start[c]*(1-t) + end[c]*t truncated, t = y/height, x/width or
\* (x+y)/(width+height) by direction, and lies in [0,255]
C2_GradientFormula ==
    (fin.fn = "create_gradient" /\ fout.done) =>
        \A p \in DOMAIN fout.img : \A c \in 1..3 :
            /\ fout.img[p][c] =
                   ExactChannel(fin.start_color[c], fin.end_color[c],
                                RatioNum(fin.direction, p[1], p[2]),
                                RatioDen(fin.direction, fin.width, fin.height))
            /\ fout.img[p][c] \in 0..255

\* C3: along the direction of interpolation each channel is monotonic
\* (non-decreasing if start[c] <= end[c], non-increasing otherwise), and the
\* pixel at the midpoint of the direction is within 1 of the average of the
\* two colors
C3_GradientMonotonic ==
    (fin.fn = "create_gradient" /\ fout.done) =>
        \A c \in 1..3 :
            /\ \A p, q \in DOMAIN fout.img :
                   RatioNum(fin.direction, p[1], p[2])
                       <= RatioNum(fin.direction, q[1], q[2]) =>
                   IF fin.start_color[c] <= fin.end_color[c]
                   THEN fout.img[p][c] <= fout.img[q][c]
                   ELSE fout.img[p][c] >= fout.img[q][c]
            /\ \A p \in DOMAIN fout.img :
                   2 * RatioNum(fin.direction, p[1], p[2])
                       = RatioDen(fin.direction, fin.width, fin.height) =>
                   LET twice == 2 * fout.img[p][c]
                       sum   == fin.start_color[c] + fin.end_color[c]
                   IN  twice - sum \in -2..2

\* the text bounding box of a finished draw_text_with_box call
CallBBox == textbbox(fin.center_x, fin.center_y, fin.text, fin.font)

C5_TransparentBoxTextOnly ==
    (fin.fn = "draw_text_with_box" /\ fout.done) =>
        IF Alpha(fin.box_color) = 0
        THEN \A i \in 1..Len(fout.ops) : fout.ops[i].op = "text"
        ELSE /\ Len(fout.ops) = 3
             /\ fout.ops[1].op = "rounded_rectangle"
             /\ fout.ops[2].op = "rounded_rectangle"
             /\ fout.ops[3].op = "text"

\* the rectangles among draw calls
Rectangles(ops) == {i \in 1..Len(ops) : ops[i].op = "rounded_rectangle"}

\* the band of C6
BandSide(kind, box_size) ==
    IF kind = "quordle"
    THEN IF box_size < 120 THEN 120 ELSE box_size
    ELSE IF box_size < 80 THEN 80 ELSE IF box_size > 90 THEN 90 ELSE box_size

\* C6: the tiles draw_puzzle_icon_large draws are squares whose side is the
\* requested box_size clamped to [80,90] for the five-tile rows and to
\* at least 120 for the 2x2 grid
C6_TileSideClamped ==
    (fin.fn = "draw_puzzle_icon_large" /\ fout.done) =>
        LET kind  == Lower(fin.puzzle_name)
            tiles == Rectangles(fout.ops)
        IN  /\ kind \in {"wordle", "colordle", "semantle", "phoodle"} =>
                   Cardinality(tiles) = 5
            /\ kind = "quordle" => Cardinality(tiles) = 4
            /\ \A i \in tiles :
                   LET box == fout.ops[i].box
                   IN  /\ box[3] - box[1] = BandSide(kind, fin.box_size)
                       /\ box[4] - box[2] = BandSide(kind, fin.box_size)

\* the size the templates ask of a five-tile row, above the band
C6_Witness ==
    /\ fin.fn = "draw_puzzle_icon_large" /\ fout.done
    /\ fin.puzzle_name = "Wordle" /\ fin.box_size = 110
    /\ \E i \in Rectangles(fout.ops) :
           fout.ops[i].box[3] - fout.ops[i].box[1] = 90

\* C7: a topic that is none of the five keys, with no override, renders in
\* both templates with wordle's gradient behind and wordle's second color
\* on the brand pill, and no tile is drawn: the draw calls are the pattern,
\* the divider or caption, and the four boxed texts
C7_UnknownTopicDefaults ==
    (/\ last.valid
     /\ Lower(last.req.puzzle_name) \notin DOMAIN themes
     /\ last.req.theme_colors = None) =>
        LET ops == last.img.ops
            n   == Len(ops)
        IN  /\ last.img.bg.start_color = <<83, 141, 78>>
            /\ last.img.bg.end_color = <<58, 95, 58>>
            /\ ops[n].op = "text" /\ ops[n].text = "wordsolverx.com"
            /\ ops[n].fill = <<58, 95, 58>>
            /\ n = 14
            /\ \A i \in Rectangles(ops) : ops[i].radius # 15

\* the landscape render of the unknown topic
C7_Witness ==
    /\ last.valid
    /\ last.req.puzzle_name = "Sudoku" /\ last.req.theme_colors = None
    /\ last.req.kind = "facebook"
    /\ Len(last.img.ops) = 14

\* --- pixels of a saved image ---------------------------------------------
\* ImageDraw on an RGB image writes a fill as it is: the alpha of a 4-tuple
\* is dropped, nothing is blended
Opaque(fill) ==
    CASE Len(fill) = 1 -> IF fill = White THEN <<255, 255, 255>> ELSE <<0, 0, 0>>
      [] Len(fill) = 7 -> hex_to_rgb(fill)
      [] OTHER         -> <<fill[1], fill[2], fill[3]>>

\* (x, y) is the center of an ellipse of the pattern
DotCenter(op, x, y) ==
    /\ x \in 0..(op.width - 1) /\ x % op.step = 0
    /\ y \in 0..(op.height - 1) /\ y % op.step = 0

InBox(box, x, y) == x \in box[1]..box[3] /\ y \in box[2]..box[4]

\* the pixels a draw call can reach: its bounding box
Reach(op, x, y) ==
    CASE op.op = "ellipse_grid" ->
            \E dx, dy \in (-op.r)..op.r : DotCenter(op, x + dx, y + dy)
      [] op.op = "rounded_rectangle" -> InBox(op.box, x, y)
      [] op.op = "text" ->
            InBox(textbbox(op.at[1], op.at[2], op.text, op.font), x, y)
      [] op.op = "line" ->
            InBox(<<op.box[1] - op.width, op.box[2] - op.width,
                    op.box[3] + op.width, op.box[4] + op.width>>, x, y)

\* the pixels a draw call paints for certain
Painted(op, x, y) == op.op = "ellipse_grid" /\ DotCenter(op, x, y)

BackgroundPixel(bg, x, y) ==
    GradientPixel(bg.width, bg.height, bg.start_color, bg.end_color,
                  bg.direction, x, y)

\* the color of pixel (x, y) of the image, for a pixel that every draw call
\* either paints for certain or cannot reach
FinalPixel(img, x, y) ==
    LET over == {i \in 1..Len(img.ops) : Painted(img.ops[i], x, y)}
    IN  IF over = {} THEN BackgroundPixel(img.bg, x, y)
        ELSE Opaque(img.ops[CHOOSE i \in over : \A j \in over : j <= i].fill)

\* columns at the center of a dot (0, 60, 960) and columns no dot reaches
ProbeXs == {0, 30, 60, 500, 960, 990, 999}

WordleJanuary ==
    [kind |-> "pinterest", puzzle_name |-> "wordle",
     date_str |-> "January 17, 2026", theme_colors |-> None]

\* C8 (as amended): the portrait image of ("wordle", "January 17, 2026") is
\* 1000x1500; nothing but the pattern reaches its top row, where the pixels
\* outside the dots are #538d4e and the dots, drawn opaque around every x
\* that is a multiple of 60, are white; nothing reaches its bottom row,
\* which is #3a5f3a
C8_TopAndBottomRows ==
    (last.valid /\ last.req = WordleJanuary) =>
        LET img == last.img
            ops == img.ops
        IN  /\ img.bg.width = 1000 /\ img.bg.height = 1500
            /\ ops[1].op = "ellipse_grid"
            /\ \A i \in 2..Len(ops) : \A x \in 0..999 :
                   ~Reach(ops[i], x, 0) /\ ~Reach(ops[i], x, 1499)
            /\ \A x \in 0..999 :
                   /\ ~Reach(ops[1], x, 1499)
                   /\ Reach(ops[1], x, 0) <=> (x % 60 <= 4 \/ x % 60 >= 56)
            /\ \A x \in ProbeXs :
                   /\ FinalPixel(img, x, 0) =
                          IF x % 60 = 0 THEN <<255, 255, 255>>
                          ELSE <<83, 141, 78>>
                   /\ FinalPixel(img, x, 1499) = <<58, 95, 58>>

\* that render, with the date box at its tallest
C8_Witness ==
    /\ last.valid /\ last.req = WordleJanuary
    /\ callerInk.up = InkMaxPct /\ callerInk.down = InkMaxPct
    /\ FinalPixel(last.img, 0, 0) = <<255, 255, 255>>

\* C8 as stated: the top row of the final image is #538d4e and the bottom
\* row within 1 per channel of #3a5f3a
C8_TopRowIsFirstColor ==
    (last.valid /\ last.req = WordleJanuary) =>
        \A x \in ProbeXs :
            /\ FinalPixel(last.img, x, 0) = <<83, 141, 78>>
            /\ \A c \in 1..3 :
                   FinalPixel(last.img, x, 1499)[c] - <<58, 95, 58>>[c] \in -1..1

\* C9: in the portrait template the center Ys increase strictly, icon (320)
\* < title (600) < caption < date < call to action, the cursor-relative ones
\* being the bottom edge the previous draw_text_with_box returned (box
\* bottom + 20) plus a fixed gap
C9_PortraitStackIncreases ==
    (last.valid /\ last.req.kind = "pinterest") =>
        LET y   == last.y
            ops == last.img.ops
            n   == Len(ops)
            title_box == ops[n - 11].box
            date_box  == ops[n - 7].box
        IN  /\ y["icon"] = 320 /\ y["title"] = 600
            /\ y["icon"] < y["title"]
            /\ y["title"] < y["caption"]
            /\ y["caption"] < y["date"]
            /\ y["date"] < y["cta"]
            /\ y["caption"] = title_box[4] + 20 + 30
            /\ y["date"] = y["caption"] + 40 + 60
            /\ y["cta"] = date_box[4] + 20 + 80
            /\ ops[n - 9].at[2] = y["caption"]
            /\ ops[n - 6].at[2] = y["date"]
            /\ ops[n - 3].at[2] = y["cta"]

\* a portrait render whose date string has its ink wholly above the anchor
C9_Witness ==
    /\ last.valid /\ last.req.kind = "pinterest"
    /\ callerInk.down < 0
    /\ last.y["cta"] > last.y["date"]

\* C10: the brand pill is drawn at center Y 1380 in the portrait template
\* and 560 in the landscape one, whatever the topic, the date string and
\* the height of the stack above it
C10_BrandPillFixed ==
    last.valid =>
        LET ops     == last.img.ops
            n       == Len(ops)
            brand_y == IF last.req.kind = "pinterest" THEN 1380 ELSE 560
        IN  /\ last.y["brand"] = brand_y
            /\ ops[n].op = "text" /\ ops[n].text = "wordsolverx.com"
            /\ ops[n].at[2] = brand_y
            /\ ops[n - 1].op = "rounded_rectangle"
            /\ ops[n - 1].box[2] < brand_y /\ brand_y < ops[n - 1].box[4]

\* a landscape render with the stack above the pill at its tallest
C10_Witness ==
    /\ last.valid /\ last.req.kind = "facebook"
    /\ callerInk.down = InkMaxPct
    /\ last.y["brand"] = 560
    /\ last.y["cta"] > 300

\* the calls of get_font that have returned
Returned == {t \in Threads : fout.th[t].ret # <<>>}

\* C11: get_font never lets an error out: whatever the state of the font
\* file, the network and the font directory, no call ends in an exception
\* and every call that returns gives a font handle
C11_GetFontNeverRaises ==
    fin.fn = "get_font" =>
        /\ \A t \in Threads : fout.th[t].pc # "raised"
        /\ \A t \in Returned :
               fout.th[t].ret[1].font.kind \in {"truetype", "default"}

\* C12: under every interleaving of concurrent get_font(style, size) calls
\* the font is downloaded at most once and loaded at most once, and every
\* caller receives the same handle
C12_SingleAcquisition ==
    fin.fn = "get_font" =>
        /\ fout.downloads <= 1
        /\ fout.loads <= 1
        /\ \A t, u \in Returned : fout.th[t].ret = fout.th[u].ret

\* the gradient of a topic in the table as written in the source
StaticGradient(puzzle_name) ==
    LET key == Lower(puzzle_name)
    IN  IF key \in DOMAIN themes THEN themes[key].gradient
        ELSE themes["wordle"].gradient

\* C13: whatever renders came before, some with a gradient override, a
\* render without override uses its topic's gradient as the source's table
\* has it, for the background and the brand text; the table it worked on is
\* the source's, and no render changes an accent
C13_OverrideDoesNotLeak ==
    last.valid =>
        LET ops == last.img.ops
            n   == Len(ops)
        IN  /\ \A k \in DOMAIN themes : last.themes[k].accent = themes[k].accent
            /\ last.req.theme_colors = None =>
                   LET g == StaticGradient(last.req.puzzle_name)
                   IN  /\ last.themes = themes
                       /\ last.img.bg.start_color = hex_to_rgb(g[1])
                       /\ last.img.bg.end_color = hex_to_rgb(g[2])
                       /\ ops[n].fill = hex_to_rgb(g[2])

\* a render of a topic with an override, kept, and later the same topic
\* and template rendered without one
C13_Witness ==
    /\ first.valid /\ last.valid
    /\ first.req.theme_colors # None
    /\ last.req.theme_colors = None
    /\ last.req.puzzle_name = "wordle" /\ first.req.puzzle_name = "wordle"
    /\ last.req.kind = first.req.kind
    /\ last.img.bg.start_color = <<83, 141, 78>>

\* the draw calls of the last render that paint a tile of the icon: the
\* rounded rectangles of radius 15, which no text box has
TileOps == {k \in DOMAIN last.img.ops : /\ last.img.ops[k].op = "rounded_rectangle"
                                        /\ last.img.ops[k].radius = 15}

TileBoxes == {last.img.ops[k].box : k \in TileOps}

KnownTopic == Lower(last.req.puzzle_name) \in DOMAIN themes

\* C14: for each of the five topics the tiles of the icon, after the
\* request (90/10 for the rows of five and 110/15 for the grid in the
\* landscape template, 110/15 in the portrait one) and the clamp, lie in the
\* canvas, around (275, 314) and strictly left of the divider at x = 550 in
\* the landscape template, around (500, 320) and wholly above the top edge
\* of the title box in the portrait one
C14_IconInsideItsRegion ==
    (last.valid /\ KnownTopic) =>
        LET ops    == last.img.ops
            n      == Len(ops)
            wide   == last.req.kind = "facebook"
            width  == IF wide THEN 1200 ELSE 1000
            height == IF wide THEN 628 ELSE 1500
            cx     == IF wide THEN 275 ELSE 500
            cy     == IF wide THEN 314 ELSE 320
            five   == Lower(last.req.puzzle_name) # "quordle"
            side   == IF five THEN 90 ELSE 120
            gap    == IF wide /\ five THEN 10 ELSE 15
            span   == IF five THEN 5 * side + 4 * gap ELSE 2 * side + gap
            tall   == IF five THEN side ELSE span
        IN  /\ Cardinality(TileOps) = IF five THEN 5 ELSE 4
            /\ \A b \in TileBoxes :
                   /\ 0 <= b[1] /\ b[1] < b[3] /\ b[3] < width
                   /\ 0 <= b[2] /\ b[2] < b[4] /\ b[4] < height
                   /\ b[3] - b[1] = side /\ b[4] - b[2] = side
                   /\ cx - span \div 2 <= b[1] /\ b[3] <= cx - span \div 2 + span
                   /\ cy - tall \div 2 <= b[2] /\ b[4] <= cy - tall \div 2 + tall
                   /\ wide => b[3] < 550
                   /\ ~wide => b[4] < ops[n - 11].box[2]
            /\ \E b \in TileBoxes : b[1] = cx - span \div 2
            /\ \E b \in TileBoxes : b[3] = cx - span \div 2 + span

\* a landscape render of the row of five outlined tiles, the rightmost
\* ending 30 short of the divider
C14_Witness ==
    /\ last.valid /\ last.req.kind = "facebook"
    /\ last.req.puzzle_name = "Colordle"
    /\ \E b \in TileBoxes : b[3] = 520

\* the height of the text bounding box of the date string of the last
\* render: its box less the padding above and below
DateBBoxHeight ==
    LET ops == last.img.ops
        n   == Len(ops)
        padding_y == IF last.req.kind = "pinterest" THEN 20 ELSE 15
    IN  ops[n - 7].box[4] - ops[n - 7].box[2] - 2 * padding_y

\* C15: in both templates, for every topic and every date string whose
\* text bounding box is no taller than the font's pixel size, the bottom
\* edge of the call-to-action box, its 6-pixel shadow included, is strictly
\* above the top edge of the brand pill box, and the brand pill box with its
\* shadow lies within the canvas height (1500 portrait, 628 landscape)
C15_CtaClearOfBrandPill ==
    (last.valid /\ DateBBoxHeight <= last.img.ops[Len(last.img.ops) - 6].font.size) =>
        LET ops    == last.img.ops
            n      == Len(ops)
            height == IF last.req.kind = "pinterest" THEN 1500 ELSE 628
            cta_shadow   == ops[n - 5].box
            cta_box      == ops[n - 4].box
            brand_shadow == ops[n - 2].box
            brand_box    == ops[n - 1].box
        IN  /\ ops[n - 3].op = "text" /\ ops[n - 3].at[2] = last.y["cta"]
            /\ ops[n - 6].op = "text" /\ ops[n - 6].text = last.req.date_str
            /\ cta_shadow[4] = cta_box[4] + 6
            /\ brand_shadow[4] = brand_box[4] + 6
            /\ cta_box[4] < brand_box[2]
            /\ cta_shadow[4] < brand_box[2]
            /\ 0 <= brand_box[2] /\ brand_box[4] < height
            /\ 0 <= brand_shadow[2] /\ brand_shadow[4] < height

\* a landscape render with the fonts in place and a date string whose ink
\* hangs wholly below the anchor: the stack at its tallest, the shadow of
\* the call-to-action box ending at 426
C15_Witness ==
    /\ last.valid /\ last.req.kind = "facebook"
    /\ callerInk = [up |-> 0, down |-> InkMaxPct]
    /\ last.img.ops[Len(last.img.ops) - 6].font.size = 50
    /\ DateBBoxHeight = 35
    /\ last.img.ops[Len(last.img.ops) - 5].box[4] = 426

\* run_social_post was given a key of PUZZLES
KnownKey == fin.puzzle_key \in DOMAIN PUZZLES

\* the calls run_social_post has made so far, by name
CallNames == [k \in DOMAIN fout.calls |-> fout.calls[k].fn]

\* the Pinterest upload has just come back with result ret
PinterestCameBack(ret) ==
    /\ AtPost("cleanup_pinterest")
    /\ fout.calls[Len(fout.calls)].ret = ret

\* the Facebook image has been generated and posted, and
\* run_social_post has returned
FacebookPosted ==
    /\ AtPost("returned")
    /\ Len(fout.calls) = 4
    /\ fout.calls[3].fn = "generate_facebook_image"
    /\ fout.calls[4].fn = "post_image_to_facebook"
    /\ fout.calls[4].image_path = fout.calls[3].image_path

\* C16: run_social_post for a known key leaves no generated image file
\* behind: each file a generate call produced is gone when run_social_post
\* returns, whether its upload gave an id or None; once the Pinterest upload
\* has come back, with either result, the Facebook image is generated and
\* posted; for an unknown key no image is generated and no upload attempted
C16_NoImageLeftBehind ==
    /\ [](AtPost("returned") => fout.files = {})
    /\ []((AtPost("returned") /\ KnownKey) =>
             /\ CallNames = <<"generate_pinterest_image", "upload_image_to_pinterest",
                              "generate_facebook_image", "post_image_to_facebook">>
             /\ fout.calls[2].image_path = fout.calls[1].image_path
             /\ fout.calls[4].image_path = fout.calls[3].image_path
             /\ fout.calls[1].image_path # fout.calls[3].image_path)
    /\ [](AtPost("generate_facebook") => fout.files = {})
    /\ [](~KnownKey => (fout.calls = <<>> /\ fout.files = {} /\ ~last.valid))
    /\ \A ret \in {"id", "None"} : PinterestCameBack(ret) ~> FacebookPosted
    /\ (AtPost("start") /\ ~KnownKey) ~> AtPost("returned")

\* a run for a known key that has returned, its Pinterest upload having
\* given None and its Facebook post an id
C16_Witness ==
    /\ AtPost("returned") /\ KnownKey
    /\ Len(fout.calls) = 4
    /\ fout.calls[2].ret = "None"
    /\ fout.calls[4].ret = "id"
    /\ fout.files = {}

=============================================================================
